---- MODULE Spec2Model ----
(***************************************************************************)
(* Plan/Fact reconciliation (src/app.py): the Streamlit session state, the *)
(* upload step, the mapping form's submit handler (validation, rename,     *)
(* dropna, drop_duplicates, outer merge, numeric fill, derived fields) and *)
(* the store-level analysis (groupby/sum, deviation percentages, the       *)
(* problem-store filter and its sort).                                     *)
(*                                                                         *)
(* Column names are the source's, transliterated where they are Cyrillic:  *)
(*   magazin = 'магазин', Otklonenie_sht = 'Отклонение_шт',                *)
(*   Otklonenie_grn = 'Отклонение_грн', Otklonenie_pct_sht =               *)
(*   'Отклонение_%_шт', Otklonenie_pct_grn = 'Отклонение_%_грн'.           *)
(***************************************************************************)
EXTENDS Integers, Sequences, FiniteSets, TLC

VARIABLES plan_df_original, fact_df_original, processed_df, threshold, sort_by,
          form, notice

vars ==
    <<plan_df_original, fact_df_original, processed_df, threshold, sort_by,
      form, notice>>

\* A session-state slot: None, or a DataFrame (a sequence of rows; the
\* empty DataFrame is not None).
None == [none |-> TRUE, rows |-> <<>>]

DataFrame(rows) == [none |-> FALSE, rows |-> rows]

\* notice: what the submit handler wrote to the page in the current script
\* run (st.error / st.success); nothing in a run that is not a submission.
\* The handler has no st.warning call: warnings is the empty set throughout.
NoNotice == [kind |-> "none", fields |-> {}, warnings |-> {}]

\* st.error(f"Не выбраны колонки для полей: {empty_plan_fields + ...}")
MissingNotice(fields) ==
    [kind |-> "missing", fields |-> fields, warnings |-> {}]

\* st.error("Ошибка: Одна и та же колонка выбрана для нескольких полей...")
AmbiguousNotice == [kind |-> "ambiguous", fields |-> {}, warnings |-> {}]

\* st.error(f"❌ Ошибка при обработке данных: {e}")
FailedNotice == [kind |-> "failed", fields |-> {}, warnings |-> {}]

\* st.success("✅ Данные успешно обработаны!")
SuccessNotice == [kind |-> "success", fields |-> {}, warnings |-> {}]

----------------------------------------------------------------------------
(* Spreadsheet cells, as pd.read_excel delivers them: a text cell, a      *)
(* numeric cell, or a blank cell (NaN).                                    *)

Str(x) == [t |-> "str", s |-> x, n |-> 0]
Int_(k) == [t |-> "num", s |-> "", n |-> k]
NULL == [t |-> "null", s |-> "", n |-> 0]

(* Floating-point column values after pd.to_numeric: an exact rational    *)
(* n/d (d > 0, lowest terms), NaN, or +inf (np.inf).  Rounding of binary   *)
(* floats is not modelled.                                                 *)

RECURSIVE GCD(_, _)
GCD(a, b) == IF b = 0 THEN a ELSE GCD(b, a % b)

Abs(x) == IF x < 0 THEN -x ELSE x

Ratio(n, d) ==
    LET g == GCD(Abs(n), d)
    IN  [t |-> "num", n |-> n \div g, d |-> d \div g]

Num(k) == [t |-> "num", n |-> k, d |-> 1]
NaN == [t |-> "nan", n |-> 0, d |-> 1]
Inf == [t |-> "inf", n |-> 0, d |-> 1]

IsNum(a) == a.t = "num"
IsFinite(a) == a.t = "num"

\* a - b on float64: NaN if either is NaN.
FSub(a, b) ==
    IF a.t = "nan" \/ b.t = "nan" THEN NaN
    ELSE Ratio(a.n * b.d - b.n * a.d, a.d * b.d)

\* a + b on float64.
FAdd(a, b) ==
    IF a.t = "nan" \/ b.t = "nan" THEN NaN
    ELSE Ratio(a.n * b.d + b.n * a.d, a.d * b.d)

\* a * b on float64.
FMul(a, b) ==
    IF a.t = "nan" \/ b.t = "nan" THEN NaN
    ELSE Ratio(a.n * b.n, a.d * b.d)

\* a / b * 100 on float64, used only where b > 0 is selected by np.where.
FPct(a, b) ==
    IF a.t = "nan" \/ b.t = "nan" THEN NaN
    ELSE Ratio(100 * a.n * b.d, a.d * b.n)

\* abs(a)
FAbs(a) == IF a.t = "num" THEN [a EXCEPT !.n = Abs(a.n)] ELSE a

\* a > b: False whenever a NaN is involved, +inf above every number.
FGt(a, b) ==
    CASE a.t = "nan" \/ b.t = "nan" -> FALSE
      [] a.t = "inf" -> b.t # "inf"
      [] b.t = "inf" -> FALSE
      [] OTHER -> a.n * b.d > b.n * a.d

\* a != 0: True for NaN (NaN != 0 is True in IEEE arithmetic) and for inf.
FNeZero(a) == ~(a.t = "num" /\ a.n = 0)

----------------------------------------------------------------------------
(* The form's field tables.                                                *)

PLAN_REQUIRED_FIELDS ==
    {"magazin", "ART", "Describe", "MOD", "Price", "brend", "Segment",
     "Plan_STUKI", "Plan_GRN"}

FACT_REQUIRED_FIELDS == {"magazin", "ART", "Describe", "MOD", "Fact_STUKI"}

\* The order of the fields in the two dicts.
PlanFieldOrder ==
    <<"magazin", "ART", "Describe", "MOD", "Price", "brend", "Segment",
      "Plan_STUKI", "Plan_GRN">>

FactFieldOrder == <<"magazin", "ART", "Describe", "MOD", "Fact_STUKI">>

merge_keys == <<"magazin", "ART", "Describe", "MOD">>

numeric_columns == <<"Plan_STUKI", "Fact_STUKI", "Plan_GRN", "Price">>

----------------------------------------------------------------------------
(* Uploaded files.  A Plan file has the nine columns below and a Fact file *)
(* the five below; a row is a record from column name to cell.             *)

PlanCols ==
    {"Store", "Article", "Description", "Model", "Price", "Brand",
     "Segment", "PlanQty", "PlanAmount"}

FactCols == {"Store", "Article", "Description", "Model", "FactQty"}

PlanRow(st, de, q) ==
    [Store |-> st, Article |-> Str("A1"), Description |-> de,
     Model |-> Str("M1"), Price |-> Int_(100), Brand |-> Str("B1"),
     Segment |-> Str("G1"), PlanQty |-> Int_(q), PlanAmount |-> Int_(q * 100)]

FactRow(st, de, q) ==
    [Store |-> st, Article |-> Str("A1"), Description |-> de,
     Model |-> Str("M1"), FactQty |-> Int_(q)]

\* A Plan file in the wide layout: one (store, quantity, amount) column
\* triple per store, the second triple without its amount column.
WidePlanCols ==
    {"Article", "Description", "Model", "Price", "Brand", "Segment",
     "Store1", "Qty1", "Amt1", "Store2", "Qty2"}

WidePlanRow ==
    [Article |-> Str("A1"), Description |-> Str("D1"), Model |-> Str("M1"),
     Price |-> Int_(100), Brand |-> Str("B1"), Segment |-> Str("G1"),
     Store1 |-> Str("S1"), Qty1 |-> Int_(10), Amt1 |-> Int_(1000),
     Store2 |-> Str("S2"), Qty2 |-> Int_(5)]

\* Bounds of the explored inputs.
MaxRows == 2      \* rows of the Plan and the Fact file together (SpecPipeline)
SessionRows == 1  \* rows of one uploaded file (Spec)

SeqsUpTo(S, n) == UNION {[1..k -> S] : k \in 0..n}

SeqsFromOneTo(S, n) == UNION {[1..k -> S] : k \in 1..n}

\* One column of one file holds text or numbers, not both (blank cells
\* are allowed in either).
Homogeneous(f) ==
    \/ \A i \in 1..Len(f) : f[i].Store.t \in {"str", "null"}
    \/ \A i \in 1..Len(f) : f[i].Store.t \in {"num", "null"}

PlanRowPool ==
    {PlanRow(st, de, q) : st \in {Str("S1"), Str("S2")},
                          de \in {Str("D1"), NULL},
                          q \in {10, -5}}

FactRowPool ==
    {FactRow(st, de, q) : st \in {Str("S1"), Str("S2")},
                          de \in {Str("D1"), Str("D2")},
                          q \in {7, 0}}

SessionPlanRowPool == {PlanRow(Str("S1"), Str("D1"), 10)}

SessionFactRowPool ==
    {FactRow(st, Str("D1"), 7) : st \in {Str("S1"), Int_(5)}}

SessionPlanFiles ==
    {f \in SeqsFromOneTo(SessionPlanRowPool, SessionRows) : Homogeneous(f)}
    \cup {<<WidePlanRow>>}

SessionFactFiles ==
    {f \in SeqsFromOneTo(SessionFactRowPool, SessionRows) : Homogeneous(f)}

----------------------------------------------------------------------------
(* The selectboxes of the mapping form: internal field -> chosen column,   *)
(* '' when nothing is chosen.                                              *)

PlanIdentity ==
    [magazin |-> "Store", ART |-> "Article", Describe |-> "Description",
     MOD |-> "Model", Price |-> "Price", brend |-> "Brand",
     Segment |-> "Segment", Plan_STUKI |-> "PlanQty",
     Plan_GRN |-> "PlanAmount"]

FactIdentity ==
    [magazin |-> "Store", ART |-> "Article", Describe |-> "Description",
     MOD |-> "Model", Fact_STUKI |-> "FactQty"]

\* The wide file's first triple chosen by hand, and its second triple
\* (which has no amount column to choose).
WideFirstTriple ==
    [PlanIdentity EXCEPT !.magazin = "Store1", !.Plan_STUKI = "Qty1",
                         !.Plan_GRN = "Amt1"]

WideSecondTriple ==
    [PlanIdentity EXCEPT !.magazin = "Store2", !.Plan_STUKI = "Qty2",
                         !.Plan_GRN = ""]

\* The mappings explored: every field on its own column; one field left
\* unselected; one further field put on the Store column; the two Plan
\* amount columns exchanged; one field unselected and another on a column
\* already taken; the wide file's two triples.
PlanMappings ==
    {PlanIdentity}
    \cup {[PlanIdentity EXCEPT ![f] = ""] : f \in PLAN_REQUIRED_FIELDS}
    \cup {[PlanIdentity EXCEPT ![f] = "Store"] :
              f \in PLAN_REQUIRED_FIELDS \ {"magazin"}}
    \cup {[PlanIdentity EXCEPT !.Plan_STUKI = "PlanAmount",
                               !.Plan_GRN = "PlanQty"]}
    \cup {[PlanIdentity EXCEPT !.Price = "", !.Plan_GRN = "PlanQty"]}
    \cup {WideFirstTriple, WideSecondTriple}

FactMappings ==
    {FactIdentity}
    \cup {[FactIdentity EXCEPT ![f] = ""] : f \in FACT_REQUIRED_FIELDS}
    \cup {[FactIdentity EXCEPT ![f] = "Store"] :
              f \in FACT_REQUIRED_FIELDS \ {"magazin"}}

\* form: the mapping form as the current script run sees it: whether its
\* button started the run (submitted) and, if so, the values it carries.
SubmittedForm(plan_mappings, fact_mappings, remove_duplicates, fill_zeros) ==
    [submitted |-> TRUE, plan_mappings |-> plan_mappings,
     fact_mappings |-> fact_mappings,
     remove_duplicates |-> remove_duplicates, fill_zeros |-> fill_zeros]

NotSubmitted ==
    [submitted |-> FALSE, plan_mappings |-> PlanIdentity,
     fact_mappings |-> FactIdentity, remove_duplicates |-> TRUE,
     fill_zeros |-> TRUE]

\* One side of the form is edited at a time.
MappingPairs ==
    {<<pm, FactIdentity>> : pm \in PlanMappings}
    \cup {<<PlanIdentity, fm>> : fm \in FactMappings}

\* A check of the merge-key fields only.
empty_key_fields(mappings) ==
    {k \in DOMAIN mappings :
        mappings[k] = "" /\ \E i \in 1..Len(merge_keys) : merge_keys[i] = k}

empty_fields(mappings) == {k \in DOMAIN mappings : mappings[k] = ""}

\* A comparison of the merge-key selections only.
has_duplicate_key_values(mappings) ==
    \E i, j \in 1..Len(merge_keys) :
        /\ i # j
        /\ mappings[merge_keys[i]] # ""
        /\ mappings[merge_keys[i]] = mappings[merge_keys[j]]

\* len(values) != len(set(values)) over the non-empty selections.
has_duplicate_values(mappings) ==
    \E k1, k2 \in DOMAIN mappings :
        k1 # k2 /\ mappings[k1] # "" /\ mappings[k1] = mappings[k2]

----------------------------------------------------------------------------
(* The submit handler's data steps.                                        *)

\* The columns the selectboxes of one side offer (the table's columns).
ColumnsOf(df, cols) == IF df = <<>> THEN cols ELSE DOMAIN df[1]

MappingFits(df, mappings, cols) ==
    \A k \in DOMAIN mappings :
        mappings[k] = "" \/ mappings[k] \in ColumnsOf(df, cols)

FieldOrder(mappings) ==
    IF "Fact_STUKI" \in DOMAIN mappings THEN FactFieldOrder
    ELSE PlanFieldOrder

\* rename_map = {v: k for k, v in mappings.items() if v != ''}: the fields
\* that get a column.  For a column chosen twice the later field wins.
RenamedCols(mappings) ==
    LET order == FieldOrder(mappings)
    IN  {order[i] : i \in {i \in 1..Len(order) :
            /\ mappings[order[i]] # ""
            /\ \A j \in (i + 1)..Len(order) :
                   mappings[order[j]] # mappings[order[i]]}}

\* df[list(rename_map.keys())].rename(columns=rename_map)
Renamed(df, mappings) ==
    [i \in 1..Len(df) |->
        [k \in RenamedCols(mappings) |-> df[i][mappings[k]]]]

\* The columns the data steps read by name: the merge keys of both frames
\* (dropna, drop_duplicates, merge) and the columns of the derived fields.
\* A missing one raises KeyError.
RaisesKeyError(plan_cols, fact_cols) ==
    \/ \E i \in 1..Len(merge_keys) :
           merge_keys[i] \notin plan_cols \/ merge_keys[i] \notin fact_cols
    \/ {"Fact_STUKI", "Price", "Plan_STUKI", "Plan_GRN"}
           \ (plan_cols \cup fact_cols) # {}

KeyOf(r) == [i \in 1..Len(merge_keys) |-> r[merge_keys[i]]]

HasAllKeys(r) == \A i \in 1..Len(merge_keys) : r[merge_keys[i]].t # "null"

\* df.dropna(subset=merge_keys)
dropna(df) == SelectSeq(df, HasAllKeys)

\* df.drop_duplicates(subset=merge_keys): the first row of each key stays.
RECURSIVE drop_duplicates_from(_, _)
drop_duplicates_from(df, i) ==
    IF i > Len(df) THEN <<>>
    ELSE (IF \E j \in 1..(i - 1) : KeyOf(df[j]) = KeyOf(df[i])
          THEN <<>> ELSE <<df[i]>>) \o drop_duplicates_from(df, i + 1)

\* The variant that keeps the last row of each key.
drop_duplicates_keep_last(df) ==
    LET flagged == [i \in 1..Len(df) |->
                       [row |-> df[i],
                        last |-> ~\E j \in (i + 1)..Len(df) :
                                     KeyOf(df[j]) = KeyOf(df[i])]]
        kept == SelectSeq(flagged, LAMBDA x : x.last)
    IN  [i \in 1..Len(kept) |-> kept[i].row]

drop_duplicates(df) == drop_duplicates_from(df, 1)

----------------------------------------------------------------------------
(* pd.merge(plan, fact, on=merge_keys, how='outer')                        *)

\* Lexicographic order of the text values that occur in key columns.
StrOrder == <<" ", "A1", "B1", "D1", "D2", "G1", "M1", "S1", "S2">>

StrRank(x) == CHOOSE i \in 1..Len(StrOrder) : StrOrder[i] = x

CellLess(a, b) ==
    CASE a.t = "num" /\ b.t = "num" -> a.n < b.n
      [] a.t = "str" /\ b.t = "str" -> StrRank(a.s) < StrRank(b.s)
      [] OTHER -> a.t = "num" /\ b.t = "str"

KeyLess(k1, k2) ==
    \E i \in 1..Len(k1) :
        /\ \A j \in 1..(i - 1) : k1[j] = k2[j]
        /\ CellLess(k1[i], k2[i])

\* An outer merge returns its rows in the order of the join keys.
RECURSIVE SortedKeys(_)
SortedKeys(S) ==
    IF S = {} THEN <<>>
    ELSE LET m == CHOOSE k \in S : \A o \in S \ {k} : KeyLess(k, o)
         IN  <<m>> \o SortedKeys(S \ {m})

KeysIn(df) == {KeyOf(df[i]) : i \in 1..Len(df)}

RowsWithKey(df, key) == SelectSeq(df, LAMBDA r : KeyOf(r) = key)

MergedCols == PLAN_REQUIRED_FIELDS \cup FACT_REQUIRED_FIELDS

\* One output row: the columns of the side that is present, NaN (a blank
\* cell) in the columns of the side that is absent (a column neither side
\* has is kept as a blank one).
JoinRow(sides) ==
    [c \in MergedCols |->
        IF \E i \in 1..Len(sides) : c \in DOMAIN sides[i]
        THEN sides[CHOOSE i \in 1..Len(sides) : c \in DOMAIN sides[i]][c]
        ELSE NULL]

MergeBlock(left, right, key) ==
    LET L == RowsWithKey(left, key)
        R == RowsWithKey(right, key)
    IN  IF R = <<>> THEN [i \in 1..Len(L) |-> JoinRow(<<L[i]>>)]
        ELSE IF L = <<>> THEN [i \in 1..Len(R) |-> JoinRow(<<R[i]>>)]
        ELSE [p \in 1..(Len(L) * Len(R)) |->
                 JoinRow(<<L[((p - 1) \div Len(R)) + 1],
                           R[((p - 1) % Len(R)) + 1]>>)]

RECURSIVE MergeBlocks(_, _, _)
MergeBlocks(left, right, keys) ==
    IF keys = <<>> THEN <<>>
    ELSE MergeBlock(left, right, Head(keys))
             \o MergeBlocks(left, right, Tail(keys))

merge(left, right) ==
    MergeBlocks(left, right, SortedKeys(KeysIn(left) \cup KeysIn(right)))

\* The dtype read_excel gives a column: object when it holds text (or the
\* sheet has no rows), float64 when it holds numbers and blanks, int64
\* when it holds numbers only.
ColDtype(df, col) ==
    IF Len(df) = 0 \/ \E i \in 1..Len(df) : df[i][col].t = "str"
    THEN "object"
    ELSE IF \E i \in 1..Len(df) : df[i][col].t = "null" THEN "float64"
         ELSE "int64"

\* lib.infer_dtype of an object key column as it enters the merge.
InferredObject(df, col) ==
    IF Len(df) = 0 THEN "empty"
    ELSE IF \A i \in 1..Len(df) : df[i][col].t = "str" THEN "string"
         ELSE IF \A i \in 1..Len(df) : df[i][col].t = "num" THEN "integer"
              ELSE "mixed-integer"

\* pandas' check of one pair of join-key columns: does the merge raise
\* ValueError ("You are trying to merge on object and int64 columns")?
\* rawL/rawR are the frames as read (they fix the dtypes), left/right the
\* frames that enter the merge.  The set holds both answers where the
\* pandas releases differ (both frames empty, dtypes object and numeric).
KeyDtypeError(rawL, rawR, left, right, col) ==
    LET ld == ColDtype(rawL, col)
        rd == ColDtype(rawR, col)
        obj == IF ld = "object" THEN InferredObject(left, col)
               ELSE InferredObject(right, col)
    IN  IF (ld = "object") = (rd = "object") THEN {FALSE}
        ELSE IF (Len(left) = 0) # (Len(right) = 0) THEN {FALSE}
        ELSE IF Len(left) = 0 /\ Len(right) = 0 THEN {FALSE, TRUE}
        ELSE IF obj = "string" THEN {TRUE}
        ELSE {FALSE}

MergeRaises(rawL, rawR, left, right) ==
    IF \E i \in 1..Len(merge_keys) :
           KeyDtypeError(rawL, rawR, left, right, merge_keys[i]) = {TRUE}
    THEN {TRUE}
    ELSE IF \E i \in 1..Len(merge_keys) :
                TRUE \in KeyDtypeError(rawL, rawR, left, right, merge_keys[i])
         THEN {FALSE, TRUE}
         ELSE {FALSE}

----------------------------------------------------------------------------
(* Numeric columns and derived fields.                                     *)

\* pd.to_numeric(col, errors='coerce'): a number stays, a blank or a text
\* cell becomes NaN.
to_numeric(c) == IF c.t = "num" THEN Num(c.n) ELSE NaN

\* .fillna(0)
fillna0(v) == IF v.t = "nan" THEN Num(0) ELSE v

NumericColumn(c, fill_zeros) ==
    IF fill_zeros THEN fillna0(to_numeric(c)) ELSE to_numeric(c)

\* np.where(plan > 0, variance / plan * 100, np.where(variance != 0, inf, 0))
row_pct(variance, plan) ==
    IF FGt(plan, Num(0)) THEN FPct(variance, plan)
    ELSE IF FNeZero(variance) THEN Inf ELSE Num(0)

DerivedRow(r, fill_zeros) ==
    LET Plan_STUKI == NumericColumn(r.Plan_STUKI, fill_zeros)
        Fact_STUKI == NumericColumn(r.Fact_STUKI, fill_zeros)
        Plan_GRN == NumericColumn(r.Plan_GRN, fill_zeros)
        Price == NumericColumn(r.Price, fill_zeros)
        Fact_GRN == FMul(Fact_STUKI, Price)
        Otklonenie_sht == FSub(Fact_STUKI, Plan_STUKI)
        Otklonenie_grn == FSub(Fact_GRN, Plan_GRN)
    IN  [magazin |-> r.magazin, ART |-> r.ART, Describe |-> r.Describe,
         MOD |-> r.MOD, brend |-> r.brend, Segment |-> r.Segment,
         Price |-> Price, Plan_STUKI |-> Plan_STUKI,
         Plan_GRN |-> Plan_GRN, Fact_STUKI |-> Fact_STUKI,
         Fact_GRN |-> Fact_GRN,
         Otklonenie_sht |-> Otklonenie_sht,
         Otklonenie_grn |-> Otklonenie_grn,
         Otklonenie_pct_sht |-> row_pct(Otklonenie_sht, Plan_STUKI),
         Otklonenie_pct_grn |-> row_pct(Otklonenie_grn, Plan_GRN)]

\* The cleaned frame of one side: dropna, then drop_duplicates if chosen.
Cleaned(df, remove_duplicates) ==
    IF remove_duplicates THEN drop_duplicates(dropna(df)) ELSE dropna(df)

\* merged_df as it is stored in processed_df.
merged_df(plan_df_renamed, fact_df_renamed, fill_zeros) ==
    LET m == merge(plan_df_renamed, fact_df_renamed)
    IN  [i \in 1..Len(m) |-> DerivedRow(m[i], fill_zeros)]

----------------------------------------------------------------------------
(* Step 3: aggregation by store and the problem-store table.               *)

RECURSIVE SortedCells(_)
SortedCells(S) ==
    IF S = {} THEN <<>>
    ELSE LET m == CHOOSE c \in S : \A o \in S \ {c} : CellLess(c, o)
         IN  <<m>> \o SortedCells(S \ {m})

\* groupby('magazin') leaves out rows whose key is NaN; 'sum' skips NaN.
RECURSIVE GroupSumFrom(_, _, _, _)
GroupSumFrom(df, store, col, i) ==
    IF i > Len(df) THEN Num(0)
    ELSE IF df[i].magazin = store /\ df[i][col].t # "nan"
         THEN FAdd(df[i][col], GroupSumFrom(df, store, col, i + 1))
         ELSE GroupSumFrom(df, store, col, i + 1)

\* A group sum that leaves out the first row of the table.
GroupSumSkippingFirst(df, store, col) == GroupSumFrom(df, store, col, 2)

GroupSum(df, store, col) == GroupSumFrom(df, store, col, 1)

\* np.where(plan > 0, abs(variance) / plan * 100,
\*          np.where(variance != 0, inf, 0))
summary_pct(variance, plan) ==
    IF FGt(plan, Num(0)) THEN FPct(FAbs(variance), plan)
    ELSE IF FNeZero(variance) THEN Inf ELSE Num(0)

SummaryRow(df, store) ==
    LET Plan_STUKI == GroupSum(df, store, "Plan_STUKI")
        Fact_STUKI == GroupSum(df, store, "Fact_STUKI")
        Plan_GRN == GroupSum(df, store, "Plan_GRN")
        Fact_GRN == GroupSum(df, store, "Fact_GRN")
        Otklonenie_sht == FSub(Fact_STUKI, Plan_STUKI)
        Otklonenie_grn == FSub(Fact_GRN, Plan_GRN)
    IN  [magazin |-> store, Plan_STUKI |-> Plan_STUKI,
         Fact_STUKI |-> Fact_STUKI, Plan_GRN |-> Plan_GRN,
         Fact_GRN |-> Fact_GRN,
         Otklonenie_sht |-> Otklonenie_sht,
         Otklonenie_grn |-> Otklonenie_grn,
         Otklonenie_pct_sht |-> summary_pct(Otklonenie_sht, Plan_STUKI),
         Otklonenie_pct_grn |-> summary_pct(Otklonenie_grn, Plan_GRN)]

StoreSummary(df) ==
    LET stores == SortedCells({df[i].magazin : i \in 1..Len(df)}
                                  \ {NULL})
    IN  [g \in 1..Len(stores) |-> SummaryRow(df, stores[g])]

\* The filter with >= in place of >.
ReachesThreshold(row, t) ==
    \/ FGt(row.Otklonenie_pct_sht, Num(t))
    \/ row.Otklonenie_pct_sht = Num(t)

\* store_summary[store_summary['Otklonenie_pct_sht'] > threshold]
ExceedsThreshold(row, t) == FGt(row.Otklonenie_pct_sht, Num(t))

\* The comparison sort_values(by=col, ascending=False) orders by: the
\* column's own (signed) value.
SortValue(row, col) == row[col]

\* Rows in descending order of SortValue; rows of equal value keep their
\* order.
RECURSIVE InsertDescending(_, _, _)
InsertDescending(sorted, row, col) ==
    IF sorted = <<>> THEN <<row>>
    ELSE IF FGt(SortValue(row, col), SortValue(Head(sorted), col))
         THEN <<row>> \o sorted
         ELSE <<Head(sorted)>> \o InsertDescending(Tail(sorted), row, col)

RECURSIVE sort_values(_, _)
sort_values(df, col) ==
    IF df = <<>> THEN <<>>
    ELSE InsertDescending(sort_values(SubSeq(df, 1, Len(df) - 1), col),
                          df[Len(df)], col)

ProblemStores(summary, t, col) ==
    sort_values(SelectSeq(summary, LAMBDA row : ExceedsThreshold(row, t)),
                col)

\* The number_input (0..500, default 10) and the sort selectbox.
Thresholds == {10, 30}

DefaultThreshold == 10

SortKeys ==
    {"Otklonenie_pct_sht", "Otklonenie_pct_grn", "Otklonenie_sht",
     "Otklonenie_grn"}

DefaultSortKey == "Otklonenie_pct_sht"

\* What step 3 shows in the current state (it is shown only when
\* processed_df is not None).
store_summary == StoreSummary(processed_df.rows)

problem_stores_df == ProblemStores(store_summary, threshold, sort_by)

\* Step 4, the sidebar: the stores offered for the detailed analysis.
AnalysisScopes == {"Vse_magaziny", "Tolko_problemnye"}

\* sorted(processed_df['magazin'].dropna().unique())
all_stores_list(df) ==
    SortedCells({df[i].magazin : i \in 1..Len(df)} \ {NULL})

\* sorted(problem_stores_df['magazin'].unique()), [] for an empty frame
problem_stores_list(problems) ==
    SortedCells({problems[i].magazin : i \in 1..Len(problems)})

\* The selection without the fall-back to all stores.
stores_for_scope(all_stores, problem_stores, analysis_scope) ==
    IF analysis_scope = "Tolko_problemnye" THEN problem_stores
    ELSE all_stores

stores_for_selection(all_stores, problem_stores, analysis_scope) ==
    IF analysis_scope = "Tolko_problemnye" /\ problem_stores # <<>>
    THEN problem_stores
    ELSE all_stores

\* What steps 3 and 4 put on the page for a stored table: the "found N
\* stores > threshold" line, the problem table or the st.info line, and in
\* the sidebar the warning or the store selectbox.
PageOutcome(df, t, col, analysis_scope) ==
    LET problems == ProblemStores(StoreSummary(df), t, col)
        selection == stores_for_selection(all_stores_list(df),
                                          problem_stores_list(problems),
                                          analysis_scope)
    IN  [found |-> Len(problems),
         threshold |-> t,
         table |-> problems,
         info |-> problems = <<>>,
         sidebar_warning |-> selection = <<>>,
         options |-> selection]

----------------------------------------------------------------------------
(* The session.                                                            *)

Init ==
    /\ plan_df_original = None
    /\ fact_df_original = None
    /\ processed_df = None
    /\ threshold = DefaultThreshold
    /\ sort_by = DefaultSortKey
    /\ form = NotSubmitted
    /\ notice = NoNotice

\* Step 1: a file is put in the Plan uploader; load_excel_file returns the
\* table, or None when reading fails.
\* An uploader that would also discard the stored result.
UploadPlanResetting(loaded) ==
    /\ plan_df_original' = loaded
    /\ processed_df' = None
    /\ form' = NotSubmitted
    /\ notice' = NoNotice
    /\ UNCHANGED <<fact_df_original, threshold, sort_by>>

UploadPlan(loaded) ==
    /\ plan_df_original' = loaded
    /\ form' = NotSubmitted
    /\ notice' = NoNotice
    /\ UNCHANGED <<fact_df_original, processed_df, threshold, sort_by>>

UploadFact(loaded) ==
    /\ fact_df_original' = loaded
    /\ form' = NotSubmitted
    /\ notice' = NoNotice
    /\ UNCHANGED <<plan_df_original, processed_df, threshold, sort_by>>

\* Step 2: the form is submitted.  The two validation failures end the run
\* with st.stop(), which the handler's "except Exception" does not catch;
\* an exception raised by the data steps is caught and clears processed_df.
Submit(plan_mappings, fact_mappings, remove_duplicates, fill_zeros) ==
    /\ plan_df_original # None
    /\ fact_df_original # None
    /\ MappingFits(plan_df_original.rows, plan_mappings, PlanCols)
    /\ MappingFits(fact_df_original.rows, fact_mappings, FactCols)
    /\ form' = SubmittedForm(plan_mappings, fact_mappings, remove_duplicates,
                             fill_zeros)
    /\ IF empty_fields(plan_mappings) # {} \/ empty_fields(fact_mappings) # {}
       THEN /\ notice' = MissingNotice(empty_fields(plan_mappings)
                                           \cup empty_fields(fact_mappings))
            /\ UNCHANGED processed_df
       ELSE IF has_duplicate_values(plan_mappings)
                  \/ has_duplicate_values(fact_mappings)
       THEN /\ notice' = AmbiguousNotice
            /\ UNCHANGED processed_df
       ELSE IF RaisesKeyError(RenamedCols(plan_mappings),
                              RenamedCols(fact_mappings))
       THEN /\ notice' = FailedNotice
            /\ processed_df' = None
       ELSE LET rawPlan == Renamed(plan_df_original.rows, plan_mappings)
                rawFact == Renamed(fact_df_original.rows, fact_mappings)
                plan_df_renamed == Cleaned(rawPlan, remove_duplicates)
                fact_df_renamed == Cleaned(rawFact, remove_duplicates)
            IN  \E raised \in MergeRaises(rawPlan, rawFact,
                                          plan_df_renamed, fact_df_renamed) :
                    IF raised
                    THEN /\ notice' = FailedNotice
                         /\ processed_df' = None
                    ELSE /\ notice' = SuccessNotice
                         /\ processed_df' =
                                DataFrame(merged_df(plan_df_renamed,
                                                    fact_df_renamed,
                                                    fill_zeros))
    /\ UNCHANGED <<plan_df_original, fact_df_original, threshold, sort_by>>

\* Step 3's widgets, present while a reconciled table is shown.
SetThreshold(t) ==
    /\ processed_df # None
    /\ threshold' = t
    /\ form' = NotSubmitted
    /\ notice' = NoNotice
    /\ UNCHANGED <<plan_df_original, fact_df_original, processed_df, sort_by>>

SetSortBy(col) ==
    /\ processed_df # None
    /\ sort_by' = col
    /\ form' = NotSubmitted
    /\ notice' = NoNotice
    /\ UNCHANGED <<plan_df_original, fact_df_original, processed_df,
                   threshold>>

\* The two checkboxes as the session explores them: both at their default
\* (checked), or both unchecked.
SessionOptions == {<<TRUE, TRUE>>, <<FALSE, FALSE>>}

\* The upload and mapping steps of a session (the step-3 widgets are
\* explored by SpecPipeline below).
Next ==
    \/ \E f \in SessionPlanFiles : UploadPlan(DataFrame(f))
    \/ UploadPlan(None)
    \/ \E f \in SessionFactFiles : UploadFact(DataFrame(f))
    \/ UploadFact(None)
    \/ \E m \in MappingPairs, o \in SessionOptions :
           Submit(m[1], m[2], o[1], o[2])

Spec == Init /\ [][Next]_vars

\* The data pipeline on its own: any pair of uploaded files with at most
\* MaxRows rows together, submitted with every field on its own column
\* until a reconciled table is stored, and the step-3 widgets after that.
FilePairs ==
    UNION {SeqsUpTo(PlanRowPool, k) \X SeqsUpTo(FactRowPool, MaxRows - k) :
               k \in 0..MaxRows}

InitPipeline ==
    /\ \E pf \in FilePairs :
           /\ plan_df_original = DataFrame(pf[1])
           /\ fact_df_original = DataFrame(pf[2])
    /\ processed_df = None
    /\ threshold = DefaultThreshold
    /\ sort_by = DefaultSortKey
    /\ form = NotSubmitted
    /\ notice = NoNotice

NextPipeline ==
    \/ \E rd \in BOOLEAN, fz \in BOOLEAN :
           /\ processed_df = None
           /\ Submit(PlanIdentity, FactIdentity, rd, fz)
    \/ \E t \in Thresholds : SetThreshold(t)
    \/ \E col \in SortKeys : SetSortBy(col)

SpecPipeline == InitPipeline /\ [][NextPipeline]_vars

----------------------------------------------------------------------------
(* The cleaning steps of the handler on files with repeated keys: two Plan *)
(* rows and two Fact rows of one key with different quantities, a Plan row *)
(* whose store cell is a single space, a Fact row without a description.   *)

KeyRows == 2

KeyPlanRowPool ==
    {PlanRow(Str("S1"), Str("D1"), 10), PlanRow(Str("S1"), Str("D1"), -5),
     PlanRow(Str(" "), Str("D1"), 10)}

KeyFactRowPool ==
    {FactRow(Str("S1"), Str("D1"), 7), FactRow(Str("S1"), Str("D1"), 0),
     FactRow(Str("S1"), NULL, 7)}

InitKeys ==
    /\ \E pf \in SeqsUpTo(KeyPlanRowPool, KeyRows),
           ff \in SeqsUpTo(KeyFactRowPool, KeyRows) :
           /\ plan_df_original = DataFrame(pf)
           /\ fact_df_original = DataFrame(ff)
    /\ processed_df = None
    /\ threshold = DefaultThreshold
    /\ sort_by = DefaultSortKey
    /\ form = NotSubmitted
    /\ notice = NoNotice

NextKeys ==
    \E rd \in BOOLEAN, fz \in BOOLEAN :
        /\ processed_df = None
        /\ Submit(PlanIdentity, FactIdentity, rd, fz)

SpecKeys == InitKeys /\ [][NextKeys]_vars

----------------------------------------------------------------------------
(* Vocabulary of the properties below.  Quantities are stated with plain   *)
(* integer arithmetic on numerators and denominators, apart from the       *)
(* float operators the model of the code uses.                             *)

Rows == processed_df.rows

HasResult == processed_df # None

\* The canonical rows of the two uploaded files (every field on its own
\* column), and the join keys that survive dropna.
PlanCanonical == Renamed(plan_df_original.rows, PlanIdentity)

FactCanonical == Renamed(fact_df_original.rows, FactIdentity)

PlanKeys == KeysIn(dropna(PlanCanonical))

FactKeys == KeysIn(dropna(FactCanonical))

StoreProduct(r) == <<r.magazin, r.ART>>

InputPairs ==
    {StoreProduct(PlanCanonical[i]) : i \in 1..Len(PlanCanonical)}
    \cup {StoreProduct(FactCanonical[i]) : i \in 1..Len(FactCanonical)}

NumericFields ==
    {"Plan_STUKI", "Plan_GRN", "Fact_STUKI", "Price", "Fact_GRN",
     "Otklonenie_sht", "Otklonenie_grn", "Otklonenie_pct_sht",
     "Otklonenie_pct_grn"}

\* c = a * b, c = a - b, p = v / q * 100 as equations between numbers
\* (a NaN or an infinity equals nothing).
AllNumbers(S) == \A x \in S : x.t = "num"

IsProduct(c, a, b) ==
    AllNumbers({c, a, b}) /\ c.n * a.d * b.d = a.n * b.n * c.d

IsDifference(c, a, b) ==
    AllNumbers({c, a, b}) /\ c.n * a.d * b.d = (a.n * b.d - b.n * a.d) * c.d

IsPercentOf(p, v, q) ==
    AllNumbers({p, v, q}) /\ p.n * q.n * v.d = 100 * v.n * q.d * p.d

IsZero(a) == a.t = "num" /\ a.n = 0

IsPositive(a) == a.t = "num" /\ a.n > 0

\* |p| > t for a percentage p and an integer threshold t.
MagnitudeExceeds(p, t) ==
    \/ p.t = "inf"
    \/ p.t = "num" /\ Abs(p.n) > t * p.d

\* |a| >= |b| for two column values (inf above everything).
MagnitudeAtLeast(a, b) ==
    \/ a.t = "inf"
    \/ a.t = "num" /\ b.t = "num" /\ Abs(a.n) * b.d >= Abs(b.n) * a.d

RowsOfStore(store) == {i \in 1..Len(Rows) : Rows[i].magazin = store}

StoresInResult == {Rows[i].magazin : i \in 1..Len(Rows)}

\* The sum of an integer-valued column over a set of rows, NaN counted
\* as nothing.
RECURSIVE SumOver(_, _)
SumOver(I, col) ==
    IF I = {} THEN 0
    ELSE LET i == CHOOSE x \in I : TRUE
             v == Rows[i][col]
         IN  (IF v.t = "num" THEN v.n ELSE 0) + SumOver(I \ {i}, col)

InProblemStores(store) ==
    \E j \in 1..Len(problem_stores_df) : problem_stores_df[j].magazin = store

----------------------------------------------------------------------------
(* C1.  A submission either completes and replaces the stored reconciled   *)
(* table, or fails and leaves the previously stored table exactly as it    *)
(* was: once a reconciled table is stored, no step leaves the session      *)
(* without one.  The code's except branch sets processed_df to None.       *)
C1_FailedSubmissionKeepsResult ==
    [][HasResult => processed_df' # None]_vars

(* C2.  Join totality: every (store, product_id) pair of a Plan or Fact    *)
(* row appears in exactly one row of the reconciled table.  The code       *)
(* drops rows whose Describe or MOD is blank and joins on four columns.    *)
C2_JoinTotality ==
    HasResult =>
        \A pair \in InputPairs :
            Cardinality({i \in 1..Len(Rows) : StoreProduct(Rows[i]) = pair})
                = 1

(* C3.  Full outer join with zero fill: a key only in Plan has             *)
(* fact_qty = 0; a key only in Fact has plan_qty = 0, plan_amount = 0 and  *)
(* qty_variance = fact_qty.  With the fill checkbox off the code leaves    *)
(* NaN there.                                                              *)
C3_OuterJoinZeroFill ==
    HasResult =>
        \A i \in 1..Len(Rows) :
            /\ KeyOf(Rows[i]) \notin FactKeys => IsZero(Rows[i].Fact_STUKI)
            /\ KeyOf(Rows[i]) \notin PlanKeys =>
                   /\ IsZero(Rows[i].Plan_STUKI)
                   /\ IsZero(Rows[i].Plan_GRN)
                   /\ Rows[i].Otklonenie_sht.t = "num"
                   /\ Rows[i].Otklonenie_sht = Rows[i].Fact_STUKI

(* C4.  Every numeric field of every reconciled row is finite and          *)
(* non-null.  The code stores np.inf as the percentage of a row with       *)
(* plan 0 and a non-zero variance, and NaN when the fill checkbox is off.  *)
C4_NumericFieldsFinite ==
    HasResult =>
        \A i \in 1..Len(Rows) : \A c \in NumericFields : Rows[i][c].t = "num"

\* The two sentinel cases for one row of a table.
SentinelOf(r) ==
    /\ IsZero(r.Plan_STUKI) /\ IsZero(r.Fact_STUKI)
           => IsZero(r.Otklonenie_pct_sht)
    /\ IsZero(r.Plan_STUKI) /\ IsPositive(r.Fact_STUKI)
           => r.Otklonenie_pct_sht.t = "num"

(* C5.  Percentage sentinel: in every reconciled row and store-summary     *)
(* row, plan_qty = 0 and fact_qty = 0 give qty_variance_pct = 0, and       *)
(* plan_qty = 0 with fact_qty > 0 gives a finite value, never infinity or  *)
(* NaN.  The code's value there is np.inf.                                 *)
C5_PercentageSentinel ==
    HasResult =>
        /\ \A i \in 1..Len(Rows) : SentinelOf(Rows[i])
        /\ \A g \in 1..Len(store_summary) : SentinelOf(store_summary[g])

(* C6.  Row derivation as claimed: fact_amount = fact_qty * price,         *)
(* qty_variance = fact_qty - plan_qty, amount_variance = fact_amount -     *)
(* plan_amount, and for every row with plan_qty != 0 (plan_amount != 0)    *)
(* the percentage is variance / plan * 100.  The code computes the         *)
(* quotient only where plan > 0, and leaves NaN in the fields when the     *)
(* fill option is off.                                                     *)
C6_RowDerivationNonZeroPlan ==
    HasResult =>
        \A i \in 1..Len(Rows) :
            LET r == Rows[i]
            IN  /\ IsProduct(r.Fact_GRN, r.Fact_STUKI, r.Price)
                /\ IsDifference(r.Otklonenie_sht, r.Fact_STUKI, r.Plan_STUKI)
                /\ IsDifference(r.Otklonenie_grn, r.Fact_GRN, r.Plan_GRN)
                /\ ~IsZero(r.Plan_STUKI) =>
                       IsPercentOf(r.Otklonenie_pct_sht, r.Otklonenie_sht,
                                   r.Plan_STUKI)
                /\ ~IsZero(r.Plan_GRN) =>
                       IsPercentOf(r.Otklonenie_pct_grn, r.Otklonenie_grn,
                                   r.Plan_GRN)

(* C7.  Aggregation consistency: every store of the reconciled table has   *)
(* exactly one store-summary row, the summary has no other rows, and its   *)
(* plan_qty, fact_qty, plan_amount and fact_amount are the sums of those   *)
(* fields over all reconciled rows of the store (a NaN adds nothing).      *)
C7_AggregationConsistency ==
    HasResult =>
        /\ \A st \in StoresInResult :
               Cardinality({g \in 1..Len(store_summary) :
                                store_summary[g].magazin = st}) = 1
        /\ \A g \in 1..Len(store_summary) :
               /\ store_summary[g].magazin \in StoresInResult
               /\ \A c \in {"Plan_STUKI", "Fact_STUKI", "Plan_GRN",
                            "Fact_GRN"} :
                      store_summary[g][c] =
                          Num(SumOver(RowsOfStore(store_summary[g].magazin),
                                      c))

\* A store with two reconciled rows of fact_qty 7 each, summed to 14.
C7_TwoRowsSummed ==
    /\ HasResult
    /\ \E g \in 1..Len(store_summary) :
           /\ store_summary[g].Fact_STUKI = Num(14)
           /\ \E i, j \in RowsOfStore(store_summary[g].magazin) :
                  /\ i # j
                  /\ Rows[i].Fact_STUKI = Num(7)
                  /\ Rows[j].Fact_STUKI = Num(7)

(* C8.  The summary percentages are recomputed from the summed values      *)
(* with their sign: for every store-summary row whose summed plan_qty is   *)
(* not zero (plan_qty is a non-negative quantity, so: is positive),        *)
(* qty_variance_pct = (sum fact_qty - sum plan_qty) / sum plan_qty * 100,  *)
(* negative for understock, and likewise for the amounts.  The code takes  *)
(* abs() of the variance.                                                  *)
C8_SummaryPercentSigned ==
    HasResult =>
        \A g \in 1..Len(store_summary) :
            LET r == store_summary[g]
            IN  /\ IsPositive(r.Plan_STUKI) =>
                       /\ IsDifference(r.Otklonenie_sht, r.Fact_STUKI,
                                       r.Plan_STUKI)
                       /\ IsPercentOf(r.Otklonenie_pct_sht, r.Otklonenie_sht,
                                      r.Plan_STUKI)
                /\ IsPositive(r.Plan_GRN) =>
                       /\ IsDifference(r.Otklonenie_grn, r.Fact_GRN,
                                       r.Plan_GRN)
                       /\ IsPercentOf(r.Otklonenie_pct_grn, r.Otklonenie_grn,
                                      r.Plan_GRN)

(* C9.  Problem-store membership: a store of the summary is in the         *)
(* problem-store table if and only if the absolute value of its            *)
(* qty_variance_pct is strictly greater than the threshold; the table      *)
(* holds summary rows only, each store at most once.                       *)
C9_ProblemStoreMembership ==
    HasResult =>
        /\ \A g \in 1..Len(store_summary) :
               InProblemStores(store_summary[g].magazin)
                   <=> MagnitudeExceeds(store_summary[g].Otklonenie_pct_sht,
                                        threshold)
        /\ \A j \in 1..Len(problem_stores_df) :
               \E g \in 1..Len(store_summary) :
                   store_summary[g] = problem_stores_df[j]
        /\ \A j, k \in 1..Len(problem_stores_df) :
               j # k => problem_stores_df[j].magazin
                            # problem_stores_df[k].magazin

\* An understocked store exactly at the threshold (30 %) is left out.
C9_StoreAtThresholdExcluded ==
    /\ HasResult
    /\ threshold = 30
    /\ \E g \in 1..Len(store_summary) :
           /\ store_summary[g].Otklonenie_pct_sht = Num(30)
           /\ store_summary[g].Otklonenie_sht = Num(-3)
           /\ ~InProblemStores(store_summary[g].magazin)

(* C10.  Problem-store ordering: the problem-store table is in descending  *)
(* order of the absolute value of the chosen sort column.  The code sorts  *)
(* by the signed value.                                                    *)
C10_SortedByMagnitude ==
    HasResult =>
        \A j \in 1..(Len(problem_stores_df) - 1) :
            MagnitudeAtLeast(problem_stores_df[j][sort_by],
                             problem_stores_df[j + 1][sort_by])

----------------------------------------------------------------------------
(* Vocabulary of the mapping properties.  The required fields are the      *)
(* ones the claims list (store, product_id, plan_qty, plan_amount;         *)
(* store, product_id, fact_qty); the others are optional.                  *)

RequiredOfPlan == {"magazin", "ART", "Plan_STUKI", "Plan_GRN"}

RequiredOfFact == {"magazin", "ART", "Fact_STUKI"}

Unselected(mappings) == {k \in DOMAIN mappings : mappings[k] = ""}

RequiredUnselected(f) ==
    (Unselected(f.plan_mappings) \cap RequiredOfPlan)
        \cup (Unselected(f.fact_mappings) \cap RequiredOfFact)

OptionalUnselected(f) ==
    (Unselected(f.plan_mappings) \ RequiredOfPlan)
        \cup (Unselected(f.fact_mappings) \ RequiredOfFact)

AllSelected(f) ==
    Unselected(f.plan_mappings) \cup Unselected(f.fact_mappings) = {}

SelectsColumnTwice(mappings) ==
    \E k1, k2 \in DOMAIN mappings :
        k1 # k2 /\ mappings[k1] # "" /\ mappings[k1] = mappings[k2]

Ambiguous(f) ==
    SelectsColumnTwice(f.plan_mappings) \/ SelectsColumnTwice(f.fact_mappings)

(* C11.  Missing required field: a submission whose mapping leaves a       *)
(* required field without a column fails with the error that names the     *)
(* unselected fields, performs no join (the stored table is untouched),    *)
(* and leaves both files in place, so the form accepts a corrected         *)
(* resubmission.                                                           *)
C11_MissingRequiredField ==
    [][form'.submitted /\ RequiredUnselected(form') # {} =>
           /\ notice'.kind = "missing"
           /\ RequiredUnselected(form') \subseteq notice'.fields
           /\ processed_df' = processed_df
           /\ plan_df_original' = plan_df_original
           /\ fact_df_original' = fact_df_original
           /\ plan_df_original' # None
           /\ fact_df_original' # None]_vars

\* The plan amount was left unselected: the error names it and the table
\* of the earlier run is still stored.
C11_MissingAmountReported ==
    /\ form.submitted
    /\ "Plan_GRN" \in RequiredUnselected(form)
    /\ notice.kind = "missing"
    /\ "Plan_GRN" \in notice.fields
    /\ processed_df # None

(* C12.  Optional fields may be left unselected: a submission whose        *)
(* mapping gives every required field its own column but leaves an         *)
(* optional field (description, model, brand, segment, price) unselected   *)
(* is accepted and produces a reconciled table.  The code rejects it.      *)
C12_OptionalFieldsUnselected ==
    [][(/\ form'.submitted
        /\ RequiredUnselected(form') = {}
        /\ OptionalUnselected(form') # {}
        /\ ~Ambiguous(form')) =>
           /\ notice'.kind = "success"
           /\ processed_df' # None]_vars

OptionalKeyFields == {"Describe", "MOD"}

KeyFieldsMissing(f) ==
    (Unselected(f.plan_mappings) \cup Unselected(f.fact_mappings))
        \cap OptionalKeyFields

(* C15.  Join key composition: a description or model field that one side  *)
(* does not possess is silently left out of the join key and the           *)
(* reconciliation still succeeds on the remaining key.  Here every other   *)
(* field has its own column.  The code joins on the four fixed columns     *)
(* and rejects the submission.                                             *)
C15_MissingKeyFieldExcluded ==
    [][(/\ form'.submitted
        /\ KeyFieldsMissing(form') # {}
        /\ OptionalUnselected(form') = KeyFieldsMissing(form')
        /\ RequiredUnselected(form') = {}
        /\ ~Ambiguous(form')) =>
           /\ notice'.kind = "success"
           /\ processed_df' # None]_vars

\* The uploaded Plan file has the wide layout with an incomplete second
\* triple (Store1/Qty1/Amt1, Store2/Qty2).
WidePlanUploaded(df) ==
    /\ df # None
    /\ \A i \in 1..Len(df.rows) : DOMAIN df.rows[i] = WidePlanCols

\* The stores of the wide file's first (complete) triple.
FirstTripleStores(df) == {df.rows[i].Store1 : i \in 1..Len(df.rows)}

(* C17.  Wide-layout partial triples: a wide Plan file whose store,        *)
(* quantity and amount column groups have unequal sizes (two stores, two   *)
(* quantities, one amount) is processed with exactly its one complete      *)
(* triple and a warning is shown.  The code has no normaliser: the first   *)
(* triple can be chosen by hand in the mapping form and is then processed  *)
(* without any warning.                                                    *)
C17_PartialTriplesWarned ==
    [][(/\ form'.submitted
        /\ WidePlanUploaded(plan_df_original')
        /\ notice'.kind = "success") =>
           /\ notice'.warnings # {}
           /\ \A i \in 1..Len(processed_df'.rows) :
                  processed_df'.rows[i].Plan_STUKI.t = "num" =>
                      processed_df'.rows[i].magazin
                          \in FirstTripleStores(plan_df_original')]_vars

(* C18.  Uploads do not touch the reconciled table: a run that stores a    *)
(* newly uploaded Plan or Fact file (or None for a file that could not be  *)
(* read) leaves processed_df as it was; processed_df changes only in a     *)
(* run started by the form's submit button.                                *)
C18_UploadKeepsResult ==
    [][(\/ plan_df_original' # plan_df_original
        \/ fact_df_original' # fact_df_original
        \/ ~form'.submitted) => processed_df' = processed_df]_vars

\* A table was produced and then the Plan file was replaced by one that
\* could not be read: the table is still stored.
C18_ResultSurvivesFailedUpload ==
    /\ ~form.submitted
    /\ plan_df_original = None
    /\ fact_df_original # None
    /\ processed_df # None

\* Every page the empty reconciled table can give.
NoDataOutcomes ==
    {PageOutcome(<<>>, t, col, scope) :
         t \in Thresholds, col \in SortKeys, scope \in AnalysisScopes}

(* C16.  An empty problem-store result is not "no data": when the          *)
(* reconciled table has rows but no store exceeds the threshold, the page  *)
(* shows the "no store above the threshold" information and the store      *)
(* selector (no warning), and this page differs from every page an empty   *)
(* reconciled table gives, whatever the threshold, the sort key and the    *)
(* analysis scope.                                                         *)
C16_EmptyResultDistinguishable ==
    (HasResult /\ Rows # <<>> /\ problem_stores_df = <<>>) =>
        \A scope \in AnalysisScopes :
            LET page == PageOutcome(Rows, threshold, sort_by, scope)
            IN  /\ page.info
                /\ ~page.sidebar_warning
                /\ page \notin NoDataOutcomes

\* A table with rows none of whose stores exceeds the threshold.
C16_DataWithoutProblemStore ==
    /\ HasResult
    /\ Rows # <<>>
    /\ store_summary # <<>>
    /\ problem_stores_df = <<>>

\* str.strip() on the text values of the files: the one-space text is the
\* only one with white space.
Trimmed(x) == IF x = " " THEN "" ELSE x

\* An empty cell in the claim's sense: null, or text that is empty or
\* white space only after trimming.
Blank(c) == c.t = "null" \/ (c.t = "str" /\ Trimmed(c.s) = "")

InputRows ==
    {PlanCanonical[i] : i \in 1..Len(PlanCanonical)}
    \cup {FactCanonical[i] : i \in 1..Len(FactCanonical)}

(* C14.  Key non-emptiness: no row of the reconciled table has an empty    *)
(* store or product_id (null, or empty / white space only after            *)
(* trimming), and rows are dropped for that reason only: every input row   *)
(* with a non-empty store and product_id is represented.  The code keeps   *)
(* a white-space store and drops rows without a description or model.      *)
C14_KeyNonEmptiness ==
    HasResult =>
        /\ \A i \in 1..Len(Rows) :
               ~Blank(Rows[i].magazin) /\ ~Blank(Rows[i].ART)
        /\ \A r \in InputRows :
               (~Blank(r.magazin) /\ ~Blank(r.ART)) =>
                   \E i \in 1..Len(Rows) :
                       StoreProduct(Rows[i]) = StoreProduct(r)

\* The four-field key of a row, and the rows of a file that have it in
\* full.
Key4(r) == <<r.magazin, r.ART, r.Describe, r.MOD>>

FullKey(r) == \A k \in {"magazin", "ART", "Describe", "MOD"} : r[k] # NULL

PlanKept == SelectSeq(PlanCanonical, FullKey)

FactKept == SelectSeq(FactCanonical, FullKey)

Occurrences(df, key) == {i \in 1..Len(df) : Key4(df[i]) = key}

FirstOccurrence(df, key) ==
    df[CHOOSE i \in Occurrences(df, key) :
           \A j \in Occurrences(df, key) : i <= j]

UnionOfKeys ==
    {Key4(PlanKept[i]) : i \in 1..Len(PlanKept)}
    \cup {Key4(FactKept[i]) : i \in 1..Len(FactKept)}

ResultRowsOf(key) == {i \in 1..Len(Rows) : Key4(Rows[i]) = key}

PlanSideFrom(row, src) ==
    /\ row.Plan_STUKI = Num(src.Plan_STUKI.n)
    /\ row.Plan_GRN = Num(src.Plan_GRN.n)
    /\ row.Price = Num(src.Price.n)
    /\ row.brend = src.brend
    /\ row.Segment = src.Segment

FactSideFrom(row, src) == row.Fact_STUKI = Num(src.Fact_STUKI.n)

(* C19.  Duplicate handling: after a successful submission every row of    *)
(* the reconciled table has a key of the union of the Plan and Fact key    *)
(* sets (rows with a null key field dropped).  With remove_duplicates on,  *)
(* each key of the union has exactly one row, whose Plan values are those  *)
(* of the key's first Plan row and whose Fact values are those of its      *)
(* first Fact row.  With the option off, a key occurring m times in Plan   *)
(* and n times in Fact has m*n rows (m rows, n rows, when the other file   *)
(* does not have the key).                                                 *)
C19_DuplicateHandling ==
    (form.submitted /\ notice.kind = "success" /\ HasResult) =>
        /\ \A i \in 1..Len(Rows) : Key4(Rows[i]) \in UnionOfKeys
        /\ \A key \in UnionOfKeys :
               LET m == Cardinality(Occurrences(PlanKept, key))
                   n == Cardinality(Occurrences(FactKept, key))
               IN  IF form.remove_duplicates
                   THEN /\ Cardinality(ResultRowsOf(key)) = 1
                        /\ \A i \in ResultRowsOf(key) :
                               /\ m > 0 => PlanSideFrom(Rows[i],
                                              FirstOccurrence(PlanKept, key))
                               /\ n > 0 => FactSideFrom(Rows[i],
                                              FirstOccurrence(FactKept, key))
                   ELSE Cardinality(ResultRowsOf(key)) =
                            (IF m = 0 THEN 1 ELSE m) * (IF n = 0 THEN 1 ELSE n)

\* A key with two Plan rows and two Fact rows of different quantities was
\* submitted with remove_duplicates on, and the table has its row.
C19_RepeatedKeyReduced ==
    /\ form.submitted
    /\ form.remove_duplicates
    /\ notice.kind = "success"
    /\ \E key \in UnionOfKeys :
           /\ Cardinality(Occurrences(PlanKept, key)) = 2
           /\ Cardinality(Occurrences(FactKept, key)) = 2
           /\ PlanKept[1] # PlanKept[2]
           /\ FactKept[1] # FactKept[2]
           /\ ResultRowsOf(key) # {}

====
